---- MODULE Spec2Model ----
(***************************************************************************)
(* Rural Explorer (app.js v2.3 / v2.4): the spreadsheet normalisation and  *)
(* derived-metrics pipeline of loadExcelData, the three renderers, and     *)
(* extractURL.                                                             *)
(*                                                                         *)
(* JavaScript values are modelled as follows.                              *)
(*  - A string is a TLA+ string; characters are read with SubSeq.          *)
(*  - A number is a record [k, n, d]: k = "num" is the exact rational n/d  *)
(*    in lowest terms with d > 0, k = "nan" is NaN, k = "inf" is +Infinity *)
(*    (n = 1) or -Infinity (n = -1).  IEEE-754 rounding error is not       *)
(*    modelled: arithmetic is exact.                                       *)
(*  - A spreadsheet cell is a record [t, v, s]: t = "undef" (the row has   *)
(*    no such key), t = "num" (value v) or t = "str" (value s).            *)
(***************************************************************************)
EXTENDS Integers, Sequences, FiniteSets, TLC

VARIABLES
    rawJson,          \* rows handed over by XLSX.utils.sheet_to_json
    pc,               \* position of loadExcelData: "idle", "parsed", "done"
    currentData,      \* let currentData
    markers,          \* let markers: [live, layers]
    statusText,       \* #statusUpdate
    statusLed,        \* #statusLed class: "initial", "blue", "green", "red"
    pathTrace,        \* #pathTrace: "initial", "searching", "loaded",
                      \* "watchdog", "error"
    loadTimeout,      \* the watchdog timer of let loadTimeout: "null" (never
                      \* set), "pending", "fired", "cleared"
    listingGrid,      \* #listingGrid: the cards, in order
    listingCount,     \* #listingCount
    chartData,        \* chartInstance.data.datasets[0].data
    avgPriceText,     \* #avgPrice
    avgAcresText,     \* #avgAcres
    marketNarrative,  \* #marketNarrative
    topPicks,         \* #topPicks
    analysis,         \* locals of the last renderAnalysis that passed its guard
    cellValue,        \* argument of extractURL
    urlPc,            \* position of the extractURL call: "idle", "call", "returned"
    loads,            \* the invocations of loadExcelData followed through
                      \* their awaits, in the order they were made (SpecLoads)
    mapInit,          \* the window load handler and initMap: "unbooted",
                      \* "live", "retry" (500 ms timer pending), "dead"
    urlResult,        \* value returned by extractURL
    deps,             \* the globals among L, Chart and XLSX that are defined
    timers,           \* the loads whose watchdog timer is pending, by their
                      \* number in loads (0 for the load of Spec)
    fetchFileName,    \* argument fileName of fetchFromMultiplePaths
    responses,        \* what the server answers under each candidate prefix
    requested,        \* the paths fetched so far, in order
    fetchPc,          \* position of fetchFromMultiplePaths: "idle", "call",
                      \* "await", "returned", "thrown"
    fetchResult,      \* path of the returned { response, path }
    now,              \* Date.now() - the time of the waitForDeps call, in ms
    pollDue,          \* time the pending setTimeout(check, 200) is due, -1
                      \* when none is pending
    depsPromise       \* promise of waitForDeps: "none", "pending",
                      \* "resolved", "rejected"

vars == <<rawJson, pc, currentData, markers, statusText, statusLed, pathTrace,
          loadTimeout, listingGrid, listingCount, chartData, avgPriceText,
          avgAcresText, marketNarrative, topPicks, analysis, cellValue, urlPc,
          urlResult, loads, mapInit, deps, timers, fetchFileName, responses,
          requested, fetchPc, fetchResult, now, pollDue, depsPromise>>

pipelineVars == <<rawJson, pc, currentData, markers, statusText, statusLed,
                  pathTrace, loadTimeout, listingGrid, listingCount, chartData,
                  avgPriceText, avgAcresText, marketNarrative, topPicks, analysis,
                  loads, mapInit, deps, timers>>

pipelineVarsButDeps ==
    <<rawJson, pc, currentData, markers, statusText, statusLed, pathTrace,
      loadTimeout, listingGrid, listingCount, chartData, avgPriceText,
      avgAcresText, marketNarrative, topPicks, analysis, loads, mapInit,
      timers>>

fetchVars == <<fetchFileName, responses, requested, fetchPc, fetchResult>>

pollVars == <<now, pollDue, depsPromise>>

\* what renderUI writes, markers aside
viewVars == <<listingGrid, listingCount, chartData, avgPriceText, avgAcresText,
              marketNarrative, topPicks, analysis>>

urlVars == <<cellValue, urlPc, urlResult>>

(***************************************************************************)
(* Numbers                                                                 *)
(***************************************************************************)
Abs(i) == IF i < 0 THEN -i ELSE i

RECURSIVE Gcd(_, _)
Gcd(a, b) == IF b = 0 THEN a ELSE Gcd(b, a % b)

RECURSIVE Pow10(_)
Pow10(e) == IF e <= 0 THEN 1 ELSE 10 * Pow10(e - 1)

NaN == [k |-> "nan", n |-> 0, d |-> 1]

Inf(sign) == [k |-> "inf", n |-> sign, d |-> 1]

\* the rational n/d, d # 0, in lowest terms
Rat(n, d) ==
    LET g == Gcd(Abs(n), Abs(d))
        s == IF d < 0 THEN -1 ELSE 1
    IN  [k |-> "num", n |-> (s * n) \div g, d |-> (s * d) \div g]

Int2Num(i) == [k |-> "num", n |-> i, d |-> 1]

Zero == Int2Num(0)

IsNaN(x) == x.k = "nan"

Sign(x) == IF x.n > 0 THEN 1 ELSE IF x.n < 0 THEN -1 ELSE 0

\* x > y of JavaScript: false when either side is NaN
NumGt(x, y) ==
    IF IsNaN(x) \/ IsNaN(y) THEN FALSE
    ELSE IF x.k = "inf" THEN x.n = 1 /\ ~(y.k = "inf" /\ y.n = 1)
    ELSE IF y.k = "inf" THEN y.n = -1
    ELSE x.n * y.d > y.n * x.d

\* x >= y of JavaScript
NumGe(x, y) == NumGt(x, y) \/ (~IsNaN(x) /\ x = y)

\* x + y
NumAdd(x, y) ==
    IF IsNaN(x) \/ IsNaN(y) THEN NaN
    ELSE IF x.k = "inf" /\ y.k = "inf" THEN IF x.n = y.n THEN x ELSE NaN
    ELSE IF x.k = "inf" THEN x
    ELSE IF y.k = "inf" THEN y
    ELSE Rat(x.n * y.d + y.n * x.d, x.d * y.d)

\* x - y
NumSub(x, y) == NumAdd(x, [y EXCEPT !.n = -y.n])

\* x / y: 0/0 and Infinity/Infinity are NaN, a non-zero x over 0 is an infinity
NumDiv(x, y) ==
    IF IsNaN(x) \/ IsNaN(y) THEN NaN
    ELSE IF x.k = "inf" THEN IF y.k = "inf" THEN NaN
                             ELSE Inf(x.n * (IF y.n < 0 THEN -1 ELSE 1))
    ELSE IF y.k = "inf" THEN Zero
    ELSE IF y.n = 0 THEN IF x.n = 0 THEN NaN ELSE Inf(Sign(x))
    ELSE Rat(x.n * y.d, x.d * y.n)

\* Math.round: the nearest integer, halves towards +Infinity
MathRound(x) ==
    IF x.k = "num" THEN Int2Num((2 * x.n + x.d) \div (2 * x.d)) ELSE x

\* Math.max of two numbers
MathMax(x, y) ==
    IF IsNaN(x) \/ IsNaN(y) THEN NaN ELSE IF NumGt(y, x) THEN y ELSE x

\* a number in a boolean context (x || 0): NaN and 0 are falsy
NumTruthy(x) == ~IsNaN(x) /\ x.n # 0

\* OrZero leaving a failed parse as it is
OrZeroKeepNaN(x) == x

\* x || 0
OrZero(x) == IF NumTruthy(x) THEN x ELSE Zero

(***************************************************************************)
(* Strings                                                                 *)
(***************************************************************************)
CharAt(s, i) == IF 1 <= i /\ i <= Len(s) THEN SubSeq(s, i, i) ELSE ""

\* s from position i to its end
From(s, i) == SubSeq(s, i, Len(s))

\* String.prototype.startsWith
StartsWith(s, p) == Len(s) >= Len(p) /\ SubSeq(s, 1, Len(p)) = p

IsSpace(c) == c \in {" ", "\t", "\n", "\r"}

IsDigit(c) == c \in {"0", "1", "2", "3", "4", "5", "6", "7", "8", "9"}

DigitVal(c) ==
    CASE c = "0" -> 0 [] c = "1" -> 1 [] c = "2" -> 2 [] c = "3" -> 3
      [] c = "4" -> 4 [] c = "5" -> 5 [] c = "6" -> 6 [] c = "7" -> 7
      [] c = "8" -> 8 [] c = "9" -> 9

DigitChar(v) == SubSeq("0123456789", v + 1, v + 1)

\* first position >= i holding no white space (Len(s) + 1 when there is none)
RECURSIVE SkipSpace(_, _)
SkipSpace(s, i) ==
    IF i <= Len(s) /\ IsSpace(CharAt(s, i)) THEN SkipSpace(s, i + 1) ELSE i

\* first position >= i holding no digit
RECURSIVE SkipDigits(_, _)
SkipDigits(s, i) ==
    IF i <= Len(s) /\ IsDigit(CharAt(s, i)) THEN SkipDigits(s, i + 1) ELSE i

\* value of the digits s[i..j-1], 0 for the empty run
RECURSIVE DigitsVal(_, _, _)
DigitsVal(s, i, j) ==
    IF j <= i THEN 0 ELSE 10 * DigitsVal(s, i, j - 1) + DigitVal(CharAt(s, j - 1))

\* last position <= j holding no white space (0 when there is none)
RECURSIVE SkipSpaceBack(_, _)
SkipSpaceBack(s, j) ==
    IF j >= 1 /\ IsSpace(CharAt(s, j)) THEN SkipSpaceBack(s, j - 1) ELSE j

\* String.prototype.trim
Trim(s) == SubSeq(s, SkipSpace(s, 1), SkipSpaceBack(s, Len(s)))

\* decimal digits of a natural number
RECURSIVE NatToStr(_)
NatToStr(v) ==
    IF v < 10 THEN DigitChar(v) ELSE NatToStr(v \div 10) \o DigitChar(v % 10)

\* digits of the fraction r/d, 0 <= r < d, of a terminating decimal
RECURSIVE FracToStr(_, _)
FracToStr(r, d) ==
    IF r = 0 THEN ""
    ELSE DigitChar((10 * r) \div d) \o FracToStr((10 * r) % d, d)

\* Number.prototype.toString, for values printed without an exponent
NumToStr(x) ==
    IF x.k = "nan" THEN "NaN"
    ELSE IF x.k = "inf" THEN IF x.n > 0 THEN "Infinity" ELSE "-Infinity"
    ELSE LET a == Abs(x.n)
             whole == NatToStr(a \div x.d)
             frac == FracToStr(a % x.d, x.d)
         IN  (IF x.n < 0 THEN "-" ELSE "") \o whole
                 \o (IF frac = "" THEN "" ELSE "." \o frac)

(***************************************************************************)
(* Cells and the global conversions applied to them                        *)
(***************************************************************************)
Undefined == [t |-> "undef", v |-> Zero, s |-> ""]

NumCell(x) == [t |-> "num", v |-> x, s |-> ""]

StrCell(str) == [t |-> "str", v |-> Zero, s |-> str]

\* row['<header>']: undefined when the row has no such key
Get(row, header) == IF header \in DOMAIN row THEN row[header] ELSE Undefined

\* a cell in a boolean context: undefined, 0, NaN and "" are falsy
Truthy(cell) ==
    CASE cell.t = "undef" -> FALSE
      [] cell.t = "num" -> NumTruthy(cell.v)
      [] cell.t = "str" -> cell.s # ""

\* ToString(cell), the first step of parseFloat and parseInt
ToStr(cell) ==
    CASE cell.t = "undef" -> "undefined"
      [] cell.t = "num" -> NumToStr(cell.v)
      [] cell.t = "str" -> cell.s

\* parseFloat of a string: the longest prefix, after leading white space,
\* that is a StrDecimalLiteral; NaN when there is none
StrToFloat(s) ==
    LET i0 == SkipSpace(s, 1)
        c0 == CharAt(s, i0)
        sgn == IF c0 = "-" THEN -1 ELSE 1
        i1 == IF c0 \in {"+", "-"} THEN i0 + 1 ELSE i0
        j == SkipDigits(s, i1)
        hasDot == CharAt(s, j) = "."
        k == IF hasDot THEN SkipDigits(s, j + 1) ELSE j
        nInt == j - i1
        nFrac == IF hasDot THEN k - (j + 1) ELSE 0
        mant == DigitsVal(s, i1, j) * Pow10(nFrac)
                    + (IF hasDot THEN DigitsVal(s, j + 1, k) ELSE 0)
        hasE == CharAt(s, k) \in {"e", "E"}
        ce == CharAt(s, k + 1)
        esgn == IF ce = "-" THEN -1 ELSE 1
        m == IF ce \in {"+", "-"} THEN k + 2 ELSE k + 1
        m2 == SkipDigits(s, m)
        ex == IF hasE /\ m2 > m THEN esgn * DigitsVal(s, m, m2) ELSE 0
    IN  IF StartsWith(From(s, i1), "Infinity") THEN Inf(sgn)
        ELSE IF nInt = 0 /\ nFrac = 0 THEN NaN
        ELSE IF ex >= 0 THEN Rat(sgn * mant * Pow10(ex), Pow10(nFrac))
        ELSE Rat(sgn * mant, Pow10(nFrac) * Pow10(-ex))

\* parseInt of a string with radix 10: sign and leading digits, NaN when
\* there is no digit
StrToInt(s) ==
    LET i0 == SkipSpace(s, 1)
        c0 == CharAt(s, i0)
        sgn == IF c0 = "-" THEN -1 ELSE 1
        i1 == IF c0 \in {"+", "-"} THEN i0 + 1 ELSE i0
        j == SkipDigits(s, i1)
    IN  IF j = i1 THEN NaN ELSE Int2Num(sgn * DigitsVal(s, i1, j))

\* parseFloat(cell)
ParseFloat(cell) == StrToFloat(ToStr(cell))

\* parseInt(cell, 10)
ParseInt(cell) == StrToInt(ToStr(cell))

\* TextOr with no fallback text
TextOrEmpty(cell, fallback) ==
    Trim(IF Truthy(cell) THEN ToStr(cell) ELSE "")

\* (cell || fallback).toString().trim()
TextOr(cell, fallback) ==
    Trim(IF Truthy(cell) THEN ToStr(cell) ELSE fallback)

(***************************************************************************)
(* extractURL                                                              *)
(***************************************************************************)
LowerLetters == "abcdefghijklmnopqrstuvwxyz"

UpperLetters == "ABCDEFGHIJKLMNOPQRSTUVWXYZ"

LowerSet == {CharAt(LowerLetters, i) : i \in 1..Len(LowerLetters)}

\* position of character c in alphabet from i on, 0 when it is not there
RECURSIVE IndexOf(_, _, _)
IndexOf(c, alphabet, i) ==
    IF i > Len(alphabet) THEN 0
    ELSE IF CharAt(alphabet, i) = c THEN i
    ELSE IndexOf(c, alphabet, i + 1)

\* the upper-case letter of each lower-case letter
UpperOf == [c \in LowerSet |-> CharAt(UpperLetters, IndexOf(c, LowerLetters, 1))]

\* Canonicalize of an expression without the i flag
CanonicalizeExact(c) == c

\* canonical form of a character under the regular expression's i flag
Canonicalize(c) == IF c \in LowerSet THEN UpperOf[c] ELSE c

\* the characters of s from position i on are those of pattern from its
\* position k on, compared as the i flag compares them
RECURSIVE SameChars(_, _, _, _)
SameChars(s, i, pattern, k) ==
    \/ k > Len(pattern)
    \/ /\ Canonicalize(CharAt(s, i)) = Canonicalize(CharAt(pattern, k))
       /\ SameChars(s, i + 1, pattern, k + 1)

\* first position >= i holding a double quote (Len(s) + 1 when there is none)
RECURSIVE SkipNonQuote(_, _)
SkipNonQuote(s, i) ==
    IF i <= Len(s) /\ CharAt(s, i) # "\"" THEN SkipNonQuote(s, i + 1) ELSE i

HyperlinkToken == "=HYPERLINK("

\* last position of s holding a double quote at or before j (0 when none)
RECURSIVE LastQuote(_, _)
LastQuote(s, j) ==
    IF j >= 1 /\ CharAt(s, j) # "\"" THEN LastQuote(s, j - 1) ELSE j

\* MatchQuoted with a greedy capture group "(.+)": up to the last quote
MatchQuotedGreedy(s, q, z) ==
    IF CharAt(s, q) = "\"" /\ LastQuote(s, Len(s)) > q + 1
    THEN [ok |-> TRUE, url |-> SubSeq(s, q + 1, LastQuote(s, Len(s)) - 1)]
    ELSE [ok |-> FALSE, url |-> ""]

\* the rest of /=HYPERLINK\(\s*"([^"]+)"/i once the token has matched and
\* \s* has stopped at position q: [ok, url] with url the capture group
MatchQuoted(s, q, z) ==
    IF CharAt(s, q) = "\"" /\ z > q + 1 /\ CharAt(s, z) = "\""
    THEN [ok |-> TRUE, url |-> SubSeq(s, q + 1, z - 1)]
    ELSE [ok |-> FALSE, url |-> ""]

\* the regular expression tried at position i of s
MatchAt(s, i) ==
    IF SameChars(s, i, HyperlinkToken, 1)
    THEN MatchQuoted(s, SkipSpace(s, i + Len(HyperlinkToken)),
                     SkipNonQuote(s, SkipSpace(s, i + Len(HyperlinkToken)) + 1))
    ELSE [ok |-> FALSE, url |-> ""]

\* the first of the attempts at positions i, i + 1, ... that matches
RECURSIVE FirstMatch(_, _, _)
FirstMatch(s, i, attempt) ==
    IF attempt.ok \/ i >= Len(s) THEN attempt
    ELSE FirstMatch(s, i + 1, MatchAt(s, i + 1))

\* cellValue.match(...): the leftmost position at which the expression matches
RegexMatch(s) == FirstMatch(s, 1, MatchAt(s, 1))

\* function extractURL(cellValue)
ExtractURL(cell) ==
    IF ~Truthy(cell) \/ cell.t # "str" THEN "#"
    ELSE LET match == RegexMatch(cell.s)
         IN  IF match.ok /\ match.url # "" THEN match.url
             ELSE IF StartsWith(cell.s, "http://") \/ StartsWith(cell.s, "https://")
                  THEN cell.s
             ELSE "#"

(***************************************************************************)
(* loadExcelData: normalisation of the parsed rows                         *)
(***************************************************************************)
\* the callback of rawJson.map: one row and its index to one candidate record
NormalizeRow(row, index) ==
    LET price == OrZero(ParseFloat(Get(row, "Price")))
        acres == OrZero(ParseFloat(Get(row, "Acres")))
        lat == ParseFloat(Get(row, "Latitude"))
        lng == ParseFloat(Get(row, "Longitude"))
        driveTime == OrZero(ParseInt(Get(row, "Drive Dist (mi)")))
        llmScore == OrZero(ParseInt(Get(row, "LLM Score")))
        address == TextOr(Get(row, "Address"), "Unnamed Property")
        city == TextOr(Get(row, "City"), "")
        state == TextOr(Get(row, "State"), "")
        type == TextOr(Get(row, "Type"), "Land")
        url == ExtractURL(Get(row, "Property URL Link"))
        fullAddress == IF city # "" /\ state # ""
                       THEN address \o ", " \o city \o ", " \o state
                       ELSE address
    IN  [id |-> index, address |-> fullAddress, price |-> price, acres |-> acres,
         llmScore |-> llmScore, lat |-> lat, lng |-> lng,
         driveTime |-> driveTime, url |-> url, type |-> type]

\* KeepRecord without the longitude test (the filter of v2.1)
KeepRecordLatOnly(p) == NumGt(p.price, Zero) /\ ~IsNaN(p.lat)

\* the callback of .filter: p.price > 0 && !isNaN(p.lat) && !isNaN(p.lng)
KeepRecord(p) == NumGt(p.price, Zero) /\ ~IsNaN(p.lat) /\ ~IsNaN(p.lng)

\* Normalize numbering the records after the filter
NormalizeRenumbered(rows) ==
    LET kept == SelectSeq([i \in 1..Len(rows) |-> NormalizeRow(rows[i], i - 1)],
                          KeepRecord)
    IN  [j \in 1..Len(kept) |-> [kept[j] EXCEPT !.id = j - 1]]

\* rawJson.map(...).filter(...)
Normalize(rows) ==
    SelectSeq([i \in 1..Len(rows) |-> NormalizeRow(rows[i], i - 1)], KeepRecord)

(***************************************************************************)
(* Renderers.  A text that shows a number holds the number (NumCell); its  *)
(* toLocaleString grouping is not modelled.                                *)
(***************************************************************************)
\* p.acres > 0 ? Math.round(p.price / p.acres)
PricePerAcreRounded(p) == MathRound(NumDiv(p.price, p.acres))

\* the card's text for a record without a positive area (an em dash in
\* the source, written here in ASCII)
Unavailable == "--"

\* one card of renderListings
Card(p) ==
    [llmScore |-> p.llmScore, type |-> p.type, price |-> p.price,
     address |-> p.address, acres |-> p.acres, driveTime |-> p.driveTime,
     pricePerAcre |-> IF NumGt(p.acres, Zero)
                      THEN NumCell(PricePerAcreRounded(p))
                      ELSE StrCell(Unavailable),
     href |-> p.url, flyTo |-> <<p.lat, p.lng>>]

\* one circle marker of renderListings
Marker(p) ==
    [latlng |-> <<p.lat, p.lng>>,
     fillColor |-> IF NumGe(p.llmScore, Int2Num(90))
                   THEN "#10b981" ELSE "#64748b",
     price |-> p.price, address |-> p.address, acres |-> p.acres,
     llmScore |-> p.llmScore, href |-> p.url]

\* function renderListings: [listingGrid, markers, listingCount]
RenderListings(data, mk) ==
    [listingGrid |-> [i \in 1..Len(data) |-> Card(data[i])],
     markers |-> IF mk.live
                 THEN [mk EXCEPT !.layers = [i \in 1..Len(data) |-> Marker(data[i])]]
                 ELSE mk,
     listingCount |-> Len(data)]

\* function renderChart: the bubble data set
RenderChart(data) ==
    [i \in 1..Len(data) |->
        [x |-> data[i].driveTime,
         y |-> IF NumGt(data[i].acres, Zero)
               THEN PricePerAcreRounded(data[i]) ELSE Zero,
         r |-> MathMax(Int2Num(4), NumDiv(data[i].llmScore, Int2Num(8)))]]

\* currentData.reduce((s, p) => s + p.price, 0) over the first n records
RECURSIVE SumPrice(_, _)
SumPrice(data, n) ==
    IF n = 0 THEN Zero ELSE NumAdd(SumPrice(data, n - 1), data[n].price)

\* p.acres > 0 ? p.price / p.acres : 0
AcreTerm(p) == IF NumGt(p.acres, Zero) THEN NumDiv(p.price, p.acres) ELSE Zero

\* currentData.reduce((s, p) => s + (...), 0) over the first n records
RECURSIVE SumPricePerAcre(_, _)
SumPricePerAcre(data, n) ==
    IF n = 0 THEN Zero ELSE NumAdd(SumPricePerAcre(data, n - 1), AcreTerm(data[n]))

\* AvgPrice dividing by one less than the number of records
AvgPriceOffByOne(data) ==
    NumDiv(SumPrice(data, Len(data)), Int2Num(Len(data) - 1))

\* const avgPrice = ... / currentData.length
AvgPrice(data) == NumDiv(SumPrice(data, Len(data)), Int2Num(Len(data)))

\* AvgPricePerAcre dividing by the number of records with a positive area
AvgPricePerAcreOverPositive(data) ==
    NumDiv(SumPricePerAcre(data, Len(data)),
           Int2Num(Cardinality({i \in 1..Len(data) : NumGt(data[i].acres, Zero)})))

\* const avgPricePerAcre = ... / currentData.length
AvgPricePerAcre(data) ==
    NumDiv(SumPricePerAcre(data, Len(data)), Int2Num(Len(data)))

\* CompareScore with its operands swapped
CompareScoreAscending(a, b) == NumSub(a.llmScore, b.llmScore)

\* the comparator (a, b) => b.llmScore - a.llmScore
CompareScore(a, b) == NumSub(b.llmScore, a.llmScore)

\* x placed into the sorted sequence s before the first element that the
\* comparator orders after x
RECURSIVE InsertSorted(_, _)
InsertSorted(s, x) ==
    IF s = <<>> THEN <<x>>
    ELSE IF NumGt(CompareScore(s[1], x), Zero) THEN <<x>> \o s
    ELSE <<s[1]>> \o InsertSorted(Tail(s), x)

\* Array.prototype.sort with the comparator: a stable sort (ECMAScript 2019)
RECURSIVE SortByScore(_)
SortByScore(s) ==
    IF s = <<>> THEN <<>>
    ELSE InsertSorted(SortByScore(SubSeq(s, 1, Len(s) - 1)), s[Len(s)])

\* TopSlice cut after two elements
TopSliceTwo(sorted) == SubSeq(sorted, 1, IF Len(sorted) < 2 THEN Len(sorted) ELSE 2)

\* sorted.slice(0, 3)
TopSlice(sorted) == SubSeq(sorted, 1, IF Len(sorted) < 3 THEN Len(sorted) ELSE 3)

\* one entry appended to #topPicks
Pick(p, idx) ==
    [address |-> p.address, badge |-> idx = 0, price |-> p.price,
     acres |-> p.acres, driveTime |-> p.driveTime, llmScore |-> p.llmScore]

\* ArrayAfterSort sorting currentData itself
ArrayAfterSortInPlace(data, sorted) == sorted

\* currentData after const sorted = [...currentData].sort(...): the spread
\* copies the array, and the copy is what sort reorders
ArrayAfterSort(data, sorted) == data

\* renderAnalysis after its guard.  side is the sidebar before the call:
\* [threw, array, avgPriceText, avgAcresText, marketNarrative, topPicks,
\* analysis], array being the array currentData refers to.
\* Reading a property of sorted[0] throws when sorted is empty.
AnalysisBody(data, side) ==
    LET avgPrice == AvgPrice(data)
        avgPricePerAcre == AvgPricePerAcre(data)
        sorted == SortByScore(data)
        shown == [side EXCEPT !.avgPriceText = NumCell(MathRound(avgPrice)),
                              !.avgAcresText = NumCell(MathRound(avgPricePerAcre))]
    IN  IF sorted = <<>> THEN [shown EXCEPT !.threw = TRUE]
        ELSE [shown EXCEPT
                !.array = ArrayAfterSort(data, sorted),
                !.marketNarrative =
                    [generated |-> TRUE, address |-> sorted[1].address,
                     llmScore |-> sorted[1].llmScore,
                     driveTime |-> sorted[1].driveTime,
                     density |-> MathRound(avgPricePerAcre),
                     count |-> Len(data)],
                !.topPicks = [i \in 1..Len(TopSlice(sorted)) |->
                                 Pick(TopSlice(sorted)[i], i - 1)],
                !.analysis = [ran |-> TRUE, avgPrice |-> avgPrice,
                              avgPricePerAcre |-> avgPricePerAcre,
                              sorted |-> sorted]]

\* RenderAnalysis without its guard on the empty collection
RenderAnalysisNoGuard(data, side) == AnalysisBody(data, side)

\* function renderAnalysis
RenderAnalysis(data, side) ==
    IF Len(data) = 0 THEN side ELSE AnalysisBody(data, side)

\* RenderUI returning before it has rendered anything
RenderUINothing(data, mk, side, libs) ==
    [listings |-> RenderListings(<<>>, mk), chart |-> <<>>, side |-> side]

\* function renderUI, from the sidebar `side` and marker layer `mk` before it:
\* renderListings, renderChart, then renderAnalysis (map.fitBounds changes
\* only the viewport).  libs are the globals that are defined: new Chart(...)
\* throws a ReferenceError out of renderChart and renderUI when Chart is not,
\* after renderListings has run and before any chart exists.
RenderUI(data, mk, side, libs) ==
    IF "Chart" \in libs
    THEN [listings |-> RenderListings(data, mk),
          chart |-> RenderChart(data),
          side |-> RenderAnalysis(data, side)]
    ELSE [listings |-> RenderListings(data, mk),
          chart |-> <<>>,
          side |-> [side EXCEPT !.threw = TRUE]]

(***************************************************************************)
(* Inputs of the pipeline: the rows sheet_to_json can hand over            *)
(***************************************************************************)
N(i) == NumCell(Int2Num(i))

D(n, d) == NumCell(Rat(n, d))

S(str) == StrCell(str)

\* sequences over set of length at most n
SeqUpTo(set, n) == UNION {[1..m -> set] : m \in 0..n}

MaxRows == 4

RowA ==
    ("Price" :> N(300000)) @@ ("Acres" :> N(10)) @@ ("Latitude" :> D(389, 10))
        @@ ("Longitude" :> D(-774, 10)) @@ ("LLM Score" :> N(95))
        @@ ("Address" :> S("A"))

RowB ==
    ("Price" :> N(100000)) @@ ("Acres" :> N(0)) @@ ("Latitude" :> D(385, 10))
        @@ ("Longitude" :> D(-78, 1)) @@ ("LLM Score" :> N(70))
        @@ ("Drive Dist (mi)" :> N(45)) @@ ("Address" :> S(" 12 Mill Rd "))
        @@ ("City" :> S("Culpeper")) @@ ("State" :> S("VA"))
        @@ ("Type" :> S("Farm"))
        @@ ("Property URL Link" :> S("=HYPERLINK(\"https://example.com/x\",\"label\")"))

RowC ==
    ("Price" :> N(200000)) @@ ("Acres" :> N(10)) @@ ("Latitude" :> N(39))
        @@ ("Longitude" :> N(-77)) @@ ("LLM Score" :> N(95))
        @@ ("Drive Dist (mi)" :> N(20)) @@ ("Address" :> S("C"))
        @@ ("Property URL Link" :> S("http://e.com/c"))

RowD ==
    ("Price" :> S("100000")) @@ ("Acres" :> N(3)) @@ ("Latitude" :> S("38.2"))
        @@ ("Longitude" :> S("-77.9")) @@ ("LLM Score" :> D(889, 10))
        @@ ("Drive Dist (mi)" :> S("60 mi")) @@ ("Address" :> N(4410))
        @@ ("City" :> S("Orange"))

RowF ==
    ("Price" :> D(1500001, 10)) @@ ("Acres" :> N(-5)) @@ ("Latitude" :> N(0))
        @@ ("Longitude" :> D(-771, 10)) @@ ("LLM Score" :> N(95))
        @@ ("Address" :> S("F")) @@ ("Type" :> S("Timber"))

RowX ==
    ("Price" :> N(0)) @@ ("Acres" :> N(5)) @@ ("Latitude" :> D(388, 10))
        @@ ("Longitude" :> D(-773, 10))

\* rows for the aggregation: five that are kept, one that is dropped
AggRows == {RowA, RowB, RowC, RowD, RowF, RowX}

\* no cell under a header
Absent == Undefined

PriceCells == {Absent, N(0), N(-5), N(300000), S("abc"), S("250000.50")}

LatCells == {Absent, D(389, 10), S("n/a")}

LngCells == {Absent, D(-774, 10), S("")}

\* the other eight columns: all absent, all well formed, all malformed
OtherEmpty == <<>>

OtherGood ==
    ("Acres" :> D(25, 10)) @@ ("LLM Score" :> N(91)) @@ ("Drive Dist (mi)" :> N(35))
        @@ ("Address" :> S("7 Elm St")) @@ ("City" :> S("Luray"))
        @@ ("State" :> S("VA")) @@ ("Type" :> S("Cabin"))
        @@ ("Property URL Link" :> S("=hyperlink( \"http://e.com/7\",\"View\")"))

OtherBad ==
    ("Acres" :> S("n/a")) @@ ("LLM Score" :> S("high")) @@ ("Drive Dist (mi)" :> S(""))
        @@ ("Address" :> N(0)) @@ ("City" :> S("  ")) @@ ("State" :> S("VA"))
        @@ ("Type" :> S("")) @@ ("Property URL Link" :> S("View Listing"))

OtherColumns == {OtherEmpty, OtherGood, OtherBad}

\* a row with the given cells; an Absent cell leaves the key out
WithCell(row, header, cell) ==
    IF cell.t = "undef" THEN row ELSE (header :> cell) @@ row

FieldRows ==
    {WithCell(WithCell(WithCell(o, "Price", p), "Latitude", la), "Longitude", lo) :
        p \in PriceCells, la \in LatCells, lo \in LngCells, o \in OtherColumns}

\* one-row sheets over every combination of cells
FieldSheets == {<<r>> : r \in FieldRows}

RawInputs == SeqUpTo(AggRows, MaxRows) \cup FieldSheets

(***************************************************************************)
(* The pipeline as a state machine: a load whose rows have been parsed     *)
(* runs the rest of loadExcelData in one step.                             *)
(***************************************************************************)
NoNarrative ==
    [generated |-> FALSE, address |-> "", llmScore |-> Zero, driveTime |-> Zero,
     density |-> Zero, count |-> 0]

NoAnalysis ==
    [ran |-> FALSE, avgPrice |-> Zero, avgPricePerAcre |-> Zero, sorted |-> <<>>]

\* the data and its views before any load: let currentData = [], empty
\* containers
PageInit ==
    /\ currentData = <<>>
    /\ listingGrid = <<>>
    /\ listingCount = 0
    /\ chartData = <<>>
    /\ avgPriceText = StrCell("")
    /\ avgAcresText = StrCell("")
    /\ marketNarrative = NoNarrative
    /\ topPicks = <<>>
    /\ analysis = NoAnalysis

\* the status display and the watchdog before any load
StatusInit ==
    /\ statusText = [kind |-> "initial", count |-> 0]
    /\ statusLed = "initial"
    /\ pathTrace = "initial"
    /\ loadTimeout = "null"

\* the status display and the watchdog of a load that has found its file
\* within 15 s: the lines of loadExcelData before the normalisation
StatusLoading ==
    /\ statusText = [kind |-> "accessing", count |-> 0]
    /\ statusLed = "blue"
    /\ pathTrace = "loaded"
    /\ loadTimeout = "pending"

UrlIdle == cellValue = Undefined /\ urlPc = "idle" /\ urlResult = ""

\* no call of fetchFromMultiplePaths is followed
FetchIdle ==
    /\ fetchFileName = ""
    /\ responses = <<>>
    /\ requested = <<>>
    /\ fetchPc = "idle"
    /\ fetchResult = ""

\* waitForDeps has not been called
PollIdle == now = 0 /\ pollDue = -1 /\ depsPromise = "none"

AllDeps == {"L", "Chart", "XLSX"}

\* the first load has fetched and parsed its rows; initMap has succeeded or
\* failed
Init ==
    /\ rawJson \in RawInputs
    /\ pc = "parsed"
    /\ markers \in {[live |-> TRUE, layers |-> <<>>], [live |-> FALSE, layers |-> <<>>]}
    /\ PageInit
    /\ StatusLoading
    /\ UrlIdle
    /\ FetchIdle
    /\ PollIdle
    /\ loads = <<>>
    /\ mapInit = (IF markers.live THEN "live" ELSE "dead")
    /\ deps = AllDeps
    /\ timers = {0}

\* clearTimeout(loadTimeout): a pending timer is cancelled
ClearTimeout(timer) == IF timer = "pending" THEN "cleared" ELSE timer

\* the load whose watchdog handle loadTimeout holds: the last one started
Handle == Len(loads)

\* Cancel not cancelling
CancelNothing(ts, handle) == ts

\* the pending timers after clearTimeout(handle)
Cancel(ts, handle) == ts \ {handle}

\* AssignCurrentData adding the new records to the old ones
AssignCurrentDataMerged(old, data) == old \o data

\* the assignment currentData = rawJson.map(...).filter(...)
AssignCurrentData(old, data) == data

\* loadExcelData from the normalisation to the end of the try block, and the
\* catch block when renderUI throws: currentData is assigned, the watchdog
\* cancelled, the status set, and renderUI run.  No await stands between
\* these lines.
NormalizeAndRender(rows) ==
    \E data \in {AssignCurrentData(currentData, Normalize(rows))} :
      \E ui \in {RenderUI(data, markers,
                    [threw |-> FALSE, array |-> data,
                     avgPriceText |-> avgPriceText,
                     avgAcresText |-> avgAcresText,
                     marketNarrative |-> marketNarrative,
                     topPicks |-> topPicks, analysis |-> analysis],
                    deps)} :
        /\ currentData' = ui.side.array
        /\ listingGrid' = ui.listings.listingGrid
        /\ markers' = ui.listings.markers
        /\ listingCount' = ui.listings.listingCount
        /\ chartData' = ui.chart
        /\ avgPriceText' = ui.side.avgPriceText
        /\ avgAcresText' = ui.side.avgAcresText
        /\ marketNarrative' = ui.side.marketNarrative
        /\ topPicks' = ui.side.topPicks
        /\ analysis' = ui.side.analysis
        /\ loadTimeout' = ClearTimeout(loadTimeout)
        /\ timers' = Cancel(timers, Handle)
        /\ IF ui.side.threw
           THEN /\ statusText' = [kind |-> "failed", count |-> 0]
                /\ statusLed' = "red"
                /\ pathTrace' = "error"
           ELSE /\ statusText' = [kind |-> "loaded", count |-> Len(data)]
                /\ statusLed' = "green"
                /\ pathTrace' = pathTrace

\* the continuation of the load after its last await
FinishLoad ==
    /\ pc = "parsed"
    /\ NormalizeAndRender(rawJson)
    /\ pc' = "done"
    /\ UNCHANGED <<rawJson, loads, mapInit, deps, urlVars, fetchVars, pollVars>>

Next == FinishLoad

Spec == Init /\ [][Next]_vars

(***************************************************************************)
(* Loads followed through their awaits.  loadExcelData suspends at the     *)
(* await of each fetch and at the await of response.arrayBuffer(); what    *)
(* runs between two suspensions is one action.  The watchdog callback, the *)
(* initMap retry and the two event handlers are the other actions.         *)
(***************************************************************************)
MaxLoads == 2

\* the snapshots of the file selector; the first is the one loaded at start
Files == {"Feb012026", "Jan012026", "Dec012025", "Nov012025"}

\* the path prefixes tried by fetchFromMultiplePaths, in order
Candidates == <<"data/list/", "data/", "">>

\* the deployed site: the candidate under which a snapshot is served, 0 for
\* a snapshot that is served nowhere
Site(file) ==
    CASE file = "Feb012026" -> 1
      [] file = "Jan012026" -> 1
      [] file = "Dec012025" -> 1
      [] OTHER -> 0

\* the rows of the first sheet of a snapshot
Sheet(file) ==
    CASE file = "Feb012026" -> <<RowA, RowX>>
      [] file = "Jan012026" -> <<RowB, RowC>>
      [] file = "Dec012025" -> <<RowX>>
      [] OTHER -> <<>>

\* the globals that are defined at the window load event: all three, or all
\* but Chart when the Chart.js script did not load (a missing Leaflet or
\* SheetJS shows as a failing initMap or XLSX.read, which the actions allow
\* with every value of deps)
LibsAtLoad == {AllDeps, AllDeps \ {"Chart"}}

\* the page after the script has run and before the window load event
InitLoads ==
    /\ rawJson = <<>>
    /\ pc = "idle"
    /\ markers = [live |-> FALSE, layers |-> <<>>]
    /\ PageInit
    /\ StatusInit
    /\ UrlIdle
    /\ FetchIdle
    /\ PollIdle
    /\ loads = <<>>
    /\ mapInit = "unbooted"
    /\ deps \in LibsAtLoad
    /\ timers = {}

\* loadExcelData(fileName) up to its first await: the watchdog is restarted,
\* the status set, and fetchFromMultiplePaths fetches its first candidate
StartLoad(fileName) ==
    /\ Len(loads) < MaxLoads
    /\ loadTimeout' = "pending"
    /\ timers' = Cancel(timers, Handle) \cup {Len(loads) + 1}
    /\ statusText' = [kind |-> "accessing", count |-> 0]
    /\ pathTrace' = "searching"
    /\ statusLed' = "blue"
    /\ loads' = Append(loads, [file |-> fileName, pc |-> "fetch", k |-> 1,
                               rows |-> <<>>])
    /\ UNCHANGED <<rawJson, pc, currentData, viewVars, urlVars, fetchVars>>

\* the outcomes of one attempt to build the map: L.map throws on a
\* container without height, and L itself is a ReferenceError when Leaflet
\* is not defined
MapAttempts == IF "L" \in deps THEN BOOLEAN ELSE {FALSE}

\* function initMap: the first attempt, which on failure sets the retry timer
InitMap ==
    \E ok \in MapAttempts :
         IF ok THEN /\ mapInit' = "live"
                    /\ markers' = [live |-> TRUE, layers |-> <<>>]
               ELSE /\ mapInit' = "retry"
                    /\ markers' = markers

\* Bootstrap giving up the data load when initMap has failed
BootstrapMapFirst ==
    /\ mapInit = "unbooted"
    /\ InitMap
    /\ IF mapInit' = "live"
       THEN StartLoad("Feb012026")
       ELSE UNCHANGED <<rawJson, pc, currentData, viewVars, urlVars, fetchVars,
                        loads, loadTimeout, timers, statusText, statusLed,
                        pathTrace>>
    /\ UNCHANGED <<deps, pollVars>>

\* the window load handler: initMap(), which succeeds or fails and then
\* sets its retry timer, and loadExcelData('Feb012026')
Bootstrap ==
    /\ mapInit = "unbooted"
    /\ InitMap
    /\ StartLoad("Feb012026")
    /\ UNCHANGED <<deps, pollVars>>

\* the timer callback of initMap: the second attempt
MapRetry ==
    /\ mapInit = "retry"
    /\ \E ok \in MapAttempts :
         IF ok THEN /\ mapInit' = "live"
                    /\ markers' = [live |-> TRUE, layers |-> <<>>]
               ELSE /\ mapInit' = "dead"
                    /\ markers' = markers
    /\ UNCHANGED <<rawJson, pc, currentData, viewVars, statusText, statusLed,
                   pathTrace, loadTimeout, loads, deps, timers, urlVars,
                   fetchVars, pollVars>>

\* the change handler of #fileSelector
SelectFile ==
    /\ \E file \in Files : StartLoad(file)
    /\ UNCHANGED <<markers, mapInit, deps, pollVars>>

\* LoadFailed leaving the LED as it is
LoadFailedQuietly ==
    /\ loadTimeout' = ClearTimeout(loadTimeout)
    /\ timers' = Cancel(timers, Handle)
    /\ statusText' = [kind |-> "failed", count |-> 0]
    /\ statusLed' = statusLed
    /\ pathTrace' = "error"
    /\ UNCHANGED <<currentData, viewVars, markers>>

\* LoadFailed emptying the card grid
LoadFailedClearing ==
    /\ loadTimeout' = ClearTimeout(loadTimeout)
    /\ timers' = Cancel(timers, Handle)
    /\ statusText' = [kind |-> "failed", count |-> 0]
    /\ statusLed' = "red"
    /\ pathTrace' = "error"
    /\ listingGrid' = <<>>
    /\ UNCHANGED <<currentData, listingCount, chartData, avgPriceText,
                   avgAcresText, marketNarrative, topPicks, analysis, markers>>

\* the catch block of loadExcelData
LoadFailed ==
    /\ loadTimeout' = ClearTimeout(loadTimeout)
    /\ timers' = Cancel(timers, Handle)
    /\ statusText' = [kind |-> "failed", count |-> 0]
    /\ statusLed' = "red"
    /\ pathTrace' = "error"
    /\ UNCHANGED <<currentData, viewVars, markers>>

\* a fetch of fetchFromMultiplePaths settles for load l: a response that is
\* ok returns to loadExcelData, which writes the path and awaits
\* arrayBuffer(); otherwise the next candidate is fetched, and after the last
\* one the error is thrown into the catch block
FetchSettles(l) ==
    /\ loads[l].pc = "fetch"
    /\ IF Site(loads[l].file) = loads[l].k
       THEN /\ loads' = [loads EXCEPT ![l].pc = "buffer"]
            /\ pathTrace' = "loaded"
            /\ UNCHANGED <<currentData, viewVars, markers, statusText, statusLed,
                           loadTimeout, timers>>
       ELSE IF loads[l].k < Len(Candidates)
       THEN /\ loads' = [loads EXCEPT ![l].k = @ + 1]
            /\ UNCHANGED <<currentData, viewVars, markers, statusText, statusLed,
                           pathTrace, loadTimeout, timers>>
       ELSE /\ loads' = [loads EXCEPT ![l].pc = "failed"]
            /\ LoadFailed
    /\ UNCHANGED <<rawJson, pc, mapInit, deps, urlVars, fetchVars, pollVars>>

\* the outcomes of reading the workbook: arrayBuffer() can reject, and
\* XLSX.read throws, always so when SheetJS is not defined
WorkbookReads == IF "XLSX" \in deps THEN BOOLEAN ELSE {FALSE}

\* arrayBuffer() settles for load l: the workbook is read and the load runs
\* to its end ("done", or "threw" when renderUI threw into the catch block),
\* or the promise rejects or XLSX.read throws into the catch block
BufferSettles(l) ==
    /\ loads[l].pc = "buffer"
    /\ \E ok \in WorkbookReads :
         IF ok
         THEN /\ NormalizeAndRender(Sheet(loads[l].file))
              /\ loads' = [loads EXCEPT
                             ![l].pc = (IF statusText'.kind = "failed"
                                        THEN "threw" ELSE "done"),
                             ![l].rows = Sheet(loads[l].file)]
         ELSE /\ LoadFailed
              /\ loads' = [loads EXCEPT ![l].pc = "failed"]
    /\ UNCHANGED <<rawJson, pc, mapInit, deps, urlVars, fetchVars, pollVars>>

\* the watchdog callback, 15 s after the timer was set
WatchdogFires(l) ==
    /\ l \in timers
    /\ timers' = timers \ {l}
    /\ loadTimeout' = (IF l = Handle THEN "fired" ELSE loadTimeout)
    /\ statusLed' = "red"
    /\ statusText' = [kind |-> "timeout", count |-> 0]
    /\ pathTrace' = "watchdog"
    /\ UNCHANGED <<rawJson, pc, currentData, viewVars, markers, loads, mapInit,
                   deps, urlVars, fetchVars, pollVars>>

NextLoads ==
    \/ Bootstrap
    \/ SelectFile
    \/ MapRetry
    \/ \E l \in 1..Len(loads) : FetchSettles(l)
    \/ \E l \in 1..Len(loads) : BufferSettles(l)
    \/ \E l \in timers : WatchdogFires(l)

SpecLoads == InitLoads /\ [][NextLoads]_vars

(***************************************************************************)
(* extractURL as a state machine: one call on one cell                     *)
(***************************************************************************)
LeadTexts == {"", "x", " ", "https://e.com/?q="}

TokenTexts == {"=HYPERLINK", "=hyperlink", "=HyperLink", "HYPERLINK"}

GapTexts == {"", " "}

UrlTexts == {"https://example.com/x", "u"}

ArgTexts == {"\"" \o u \o "\"" : u \in UrlTexts} \cup {"\"\"", "A1", "\"u"}

RestTexts == {"", ",\"label\")", ",\"l\")"}

\* texts around a hyperlink formula
FormulaTexts ==
    {l \o tk \o g1 \o "(" \o g2 \o a \o r :
        l \in LeadTexts, tk \in TokenTexts, g1 \in GapTexts, g2 \in GapTexts,
        a \in ArgTexts, r \in RestTexts}

PlainTexts ==
    {"", "View Listing", "http://a.b/c", "https://example.com/x", "https://",
     "HTTP://A.B", " http://a.b", "ftp://a.b", "http:/a.b", "www.example.com"}

\* the values a 'Property URL Link' cell can hold
UrlCells ==
    {S(x) : x \in FormulaTexts \cup PlainTexts}
        \cup {Undefined, N(0), N(5), NumCell(NaN)}

PipelineIdle ==
    /\ rawJson = <<>>
    /\ pc = "idle"
    /\ markers = [live |-> FALSE, layers |-> <<>>]
    /\ PageInit
    /\ StatusInit
    /\ loads = <<>>
    /\ mapInit = "unbooted"
    /\ timers = {}

InitURL ==
    /\ cellValue \in UrlCells
    /\ urlPc = "call"
    /\ urlResult = ""
    /\ PipelineIdle
    /\ deps = AllDeps
    /\ FetchIdle
    /\ PollIdle

\* one call of extractURL(cellValue)
ExtractURLCall ==
    /\ urlPc = "call"
    /\ urlResult' = ExtractURL(cellValue)
    /\ urlPc' = "returned"
    /\ UNCHANGED <<cellValue, pipelineVars, fetchVars, pollVars>>

NextURL == ExtractURLCall

SpecURL == InitURL /\ [][NextURL]_vars

(***************************************************************************)
(* fetchFromMultiplePaths as a state machine: one call, followed through   *)
(* the await of each fetch                                                 *)
(***************************************************************************)
\* CandidatePaths with the candidates in the opposite order
CandidatePathsReversed(name) ==
    [i \in 1..Len(Candidates) |->
        Candidates[Len(Candidates) + 1 - i] \o name \o ".xlsx"]

\* const candidates = [...]
CandidatePaths(name) ==
    [i \in 1..Len(Candidates) |-> Candidates[i] \o name \o ".xlsx"]

\* what a fetch can come to: a response that is ok, a response that is not,
\* a rejection (network error)
Outcomes == {"ok", "notok", "error"}

InitFetch ==
    /\ fetchFileName \in Files
    /\ responses \in [{CandidatePaths(fetchFileName)[i] : i \in 1..Len(Candidates)}
                        -> Outcomes]
    /\ requested = <<>>
    /\ fetchPc = "call"
    /\ fetchResult = ""
    /\ PipelineIdle
    /\ deps = AllDeps
    /\ UrlIdle
    /\ PollIdle

\* the call up to its first await: the first candidate is fetched
FetchCall ==
    /\ fetchPc = "call"
    /\ requested' = <<CandidatePaths(fetchFileName)[1]>>
    /\ fetchPc' = "await"
    /\ UNCHANGED <<fetchFileName, responses, fetchResult, pipelineVars, urlVars,
                   pollVars>>

\* the awaited fetch settles: a response that is ok is returned with its
\* path; otherwise the loop fetches the next candidate, and after the last
\* one the function throws
FetchResponds ==
    /\ fetchPc = "await"
    /\ IF responses[requested[Len(requested)]] = "ok"
       THEN /\ fetchPc' = "returned"
            /\ fetchResult' = requested[Len(requested)]
            /\ requested' = requested
       ELSE IF Len(requested) < Len(CandidatePaths(fetchFileName))
       THEN /\ requested' = Append(requested,
                               CandidatePaths(fetchFileName)[Len(requested) + 1])
            /\ UNCHANGED <<fetchPc, fetchResult>>
       ELSE /\ fetchPc' = "thrown"
            /\ UNCHANGED <<requested, fetchResult>>
    /\ UNCHANGED <<fetchFileName, responses, pipelineVars, urlVars, pollVars>>

NextFetch == FetchCall \/ FetchResponds

SpecFetch == InitFetch /\ [][NextFetch]_vars

(***************************************************************************)
(* The bootstrap of v2.4: waitForDeps polls for the three globals, and the *)
(* DOMContentLoaded handler goes on to initMap and loadExcelData when the  *)
(* promise resolves.  now is the time since the call; a timer callback     *)
(* runs at its due time or later.                                          *)
(***************************************************************************)
PollMs == 200

DeadlineMs == 10000

\* the time up to which the bootstrap is followed
MaxNow == 10800

\* the array missing of function check
Missing(libs) == AllDeps \ libs

\* Expired never finding the deadline passed
ExpiredNever(t) == FALSE

\* Date.now() > deadline
Expired(t) == t > DeadlineMs

InitDeps ==
    /\ PipelineIdle
    /\ deps \in SUBSET AllDeps
    /\ UrlIdle
    /\ FetchIdle
    /\ PollIdle

\* resolve(), and the handler after await waitForDeps(): initMap() and
\* loadExcelData('Feb012026') up to its first await
Resolve ==
    /\ depsPromise' = "resolved"
    /\ pollDue' = -1
    /\ InitMap
    /\ StartLoad("Feb012026")

\* reject(...), and the catch block of the handler
Reject ==
    /\ depsPromise' = "rejected"
    /\ pollDue' = -1
    /\ statusText' = [kind |-> "bootfailed", count |-> 0]
    /\ statusLed' = "red"
    /\ pathTrace' = "console"
    /\ UNCHANGED <<rawJson, pc, currentData, viewVars, markers, mapInit, loads,
                   loadTimeout, timers, urlVars, fetchVars>>

\* setTimeout(check, 200)
Reschedule ==
    /\ depsPromise' = "pending"
    /\ pollDue' = now + PollMs
    /\ UNCHANGED <<rawJson, pc, currentData, viewVars, markers, mapInit, loads,
                   loadTimeout, timers, urlVars, fetchVars>>

\* the DOMContentLoaded handler up to its await: the status is set and
\* waitForDeps() called, whose executor runs check() at once
DomReady ==
    /\ depsPromise = "none"
    /\ IF Missing(deps) = {} THEN Resolve
       ELSE IF Expired(now) THEN Reject
       ELSE /\ Reschedule
            /\ statusText' = [kind |-> "waiting", count |-> 0]
            /\ pathTrace' = "polling"
            /\ statusLed' = statusLed
    /\ UNCHANGED <<now, deps>>

\* the timer callback check
Poll ==
    /\ depsPromise = "pending"
    /\ pollDue # -1
    /\ now >= pollDue
    /\ IF Missing(deps) = {} THEN Resolve
       ELSE IF Expired(now) THEN Reject
       ELSE /\ Reschedule
            /\ UNCHANGED <<statusText, pathTrace, statusLed>>
    /\ UNCHANGED <<now, deps>>

\* time passes while the promise is pending
Tick ==
    /\ depsPromise = "pending"
    /\ now + PollMs <= MaxNow
    /\ now' = now + PollMs
    /\ UNCHANGED <<pollDue, depsPromise, deps, pipelineVarsButDeps, urlVars,
                   fetchVars>>

\* the script of a library has loaded and defined its global
ScriptLoads(d) ==
    /\ d \in Missing(deps)
    /\ deps' = deps \cup {d}
    /\ UNCHANGED <<pollVars, pipelineVarsButDeps, urlVars, fetchVars>>

NextDeps ==
    \/ DomReady
    \/ Poll
    \/ Tick
    \/ \E d \in AllDeps : ScriptLoads(d)

SpecDeps == InitDeps /\ [][NextDeps]_vars

(***************************************************************************)
(* Properties of the pipeline (stated of Spec)                         *)
(***************************************************************************)
\* the retention rule read off the raw row
ValidRow(row) ==
    /\ NumGt(ParseFloat(Get(row, "Price")), Zero)
    /\ ~IsNaN(ParseFloat(Get(row, "Latitude")))
    /\ ~IsNaN(ParseFloat(Get(row, "Longitude")))

\* positions of currentData holding the record of row number i (from 1)
KeptAs(i) == {j \in 1..Len(currentData) : currentData[j].id = i - 1}

\* C1: after a load, the record of a raw row is in currentData if and only
\* if the row's parsed price is > 0 and its parsed latitude and longitude
\* are not NaN; the right-hand side reads only those three cells, so no
\* other cell of the row changes whether the record is kept. A record is
\* kept once, and every kept record is the record of a row.
C1_KeptIffValid ==
    pc = "done" =>
        /\ \A i \in 1..Len(rawJson) :
              /\ (KeptAs(i) # {}) <=> ValidRow(rawJson[i])
              /\ Cardinality(KeptAs(i)) <= 1
        /\ \A j \in 1..Len(currentData) : currentData[j].id \in 0..(Len(rawJson) - 1)

\* scenario 1: the first row is kept with its missing cells defaulted, the
\* second is dropped for its price of 0
C1_Witness ==
    /\ pc = "done"
    /\ rawJson = <<RowA, RowX>>
    /\ Len(currentData) = 1
    /\ currentData[1].id = 0
    /\ currentData[1].type = "Land"
    /\ currentData[1].driveTime = Zero

\* x is ranked before r: a higher score, or the same score and a lower id
Beats(x, r) ==
    \/ NumGt(x.llmScore, r.llmScore)
    \/ x.llmScore = r.llmScore /\ x.id < r.id

\* 1 + the number of records of data ranked before r
Rank(r, data) == 1 + Cardinality({j \in 1..Len(data) : Beats(data[j], r)})

\* C2: the ranked sequence of renderAnalysis is a permutation of the
\* collection by score descending, equal scores by ascending id: each
\* record stands at the position given by the number of records ranked
\* before it, so the order is a function of the collection alone.
C2_RankedByScoreThenId ==
    pc = "done" /\ Len(currentData) > 0 =>
        /\ analysis.ran
        /\ Len(analysis.sorted) = Len(currentData)
        /\ \A j \in 1..Len(currentData) :
              analysis.sorted[Rank(currentData[j], currentData)] = currentData[j]

\* scenario 3: scores 70, 95, 95 with ids 0, 1, 2 are ranked 1, 2, 0
C2_Witness ==
    /\ pc = "done"
    /\ rawJson = <<RowB, RowA, RowC>>
    /\ analysis.ran
    /\ [i \in 1..3 |-> analysis.sorted[i].id] = <<1, 2, 0>>
    /\ [i \in 1..3 |-> analysis.sorted[i].llmScore] = <<Int2Num(95), Int2Num(95), Int2Num(70)>>

\* the sum of a sequence of numbers
RECURSIVE Total(_)
Total(terms) == IF terms = <<>> THEN Zero ELSE NumAdd(Head(terms), Total(Tail(terms)))

\* price / acres of each record with a positive area, 0 for the others
AcreTerms ==
    [j \in 1..Len(currentData) |->
        IF NumGt(currentData[j].acres, Zero)
        THEN NumDiv(currentData[j].price, currentData[j].acres)
        ELSE Zero]

\* C3: for a non-empty collection the average price per acre is the sum of
\* price / acres over the records with acres > 0 (the others add 0),
\* divided by the number of all records; the sidebar shows it rounded.
C3_AvgPerAcreOverAllRecords ==
    pc = "done" /\ Len(currentData) > 0 =>
        /\ analysis.ran
        /\ analysis.avgPricePerAcre = NumDiv(Total(AcreTerms), Int2Num(Len(currentData)))
        /\ avgAcresText = NumCell(MathRound(analysis.avgPricePerAcre))

\* scenario 2: areas 0 and 10, prices 100000 and 200000 give 10000
C3_Witness ==
    /\ pc = "done"
    /\ rawJson = <<RowB, RowC>>
    /\ [j \in 1..2 |-> currentData[j].acres] = <<Zero, Int2Num(10)>>
    /\ [j \in 1..2 |-> currentData[j].price] = <<Int2Num(100000), Int2Num(200000)>>
    /\ analysis.avgPricePerAcre = Int2Num(10000)

\* C4: for a non-empty collection the average price is the sum of the
\* prices of all records divided by the number of records; the sidebar
\* shows it rounded.
C4_AvgPriceIsMean ==
    pc = "done" /\ Len(currentData) > 0 =>
        /\ analysis.ran
        /\ analysis.avgPrice =
              NumDiv(Total([j \in 1..Len(currentData) |-> currentData[j].price]),
                     Int2Num(Len(currentData)))
        /\ avgPriceText = NumCell(MathRound(analysis.avgPrice))

\* three records, none dropped, with prices 100000, 300000 and 200000
C4_Witness ==
    /\ pc = "done"
    /\ rawJson = <<RowB, RowA, RowC>>
    /\ Len(currentData) = 3
    /\ analysis.avgPrice = Int2Num(200000)

\* C5: on an empty collection renderAnalysis returns without throwing (the
\* load ends in its success branch), divides nothing (no average is shown)
\* and writes neither a narrative nor top picks.
C5_EmptyCollectionNoAnalysis ==
    pc = "done" /\ Len(currentData) = 0 =>
        /\ statusLed = "green"
        /\ statusText = [kind |-> "loaded", count |-> 0]
        /\ ~analysis.ran
        /\ avgPriceText = StrCell("")
        /\ avgAcresText = StrCell("")
        /\ marketNarrative = NoNarrative
        /\ topPicks = <<>>

\* a sheet whose only row is dropped leaves the collection empty
C5_Witness ==
    /\ pc = "done"
    /\ rawJson = <<RowX>>
    /\ currentData = <<>>
    /\ listingCount = 0

\* the record of currentData at rank k
Ranked(k) ==
    currentData[CHOOSE j \in 1..Len(currentData) : Rank(currentData[j], currentData) = k]

Min(a, b) == IF a < b THEN a ELSE b

\* C6: the top picks are the first min(3, n) records of the ranked
\* sequence, in ranked order and nothing more; the narrative names the
\* first record of the ranked sequence.
C6_TopPicksArePrefix ==
    pc = "done" /\ Len(currentData) > 0 =>
        /\ Len(topPicks) = Min(3, Len(currentData))
        /\ \A i \in 1..Len(topPicks) :
              /\ topPicks[i].address = Ranked(i).address
              /\ topPicks[i].price = Ranked(i).price
              /\ topPicks[i].acres = Ranked(i).acres
              /\ topPicks[i].driveTime = Ranked(i).driveTime
              /\ topPicks[i].llmScore = Ranked(i).llmScore
              /\ topPicks[i].badge = (i = 1)
        /\ marketNarrative.generated
        /\ marketNarrative.address = Ranked(1).address
        /\ marketNarrative.llmScore = Ranked(1).llmScore
        /\ marketNarrative.driveTime = Ranked(1).driveTime

\* two records: two picks, the higher score first
C6_Witness ==
    /\ pc = "done"
    /\ rawJson = <<RowB, RowX, RowC>>
    /\ Len(currentData) = 2
    /\ [i \in 1..Len(topPicks) |-> topPicks[i].address] = <<"C", "12 Mill Rd, Culpeper, VA">>
    /\ marketNarrative.address = "C"

(***************************************************************************)
(* Properties of loads that overlap (stated of SpecLoads)                  *)
(***************************************************************************)
\* the loads that have not reached their end
InProgress == {l \in 1..Len(loads) : loads[l].pc \in {"fetch", "buffer"}}

\* the loads that have reached the end of their try block
Succeeded == {l \in 1..Len(loads) : loads[l].pc = "done"}

\* the loads that have assigned currentData: those that reached the end of
\* their try block and those whose renderUI threw after the assignment
Assigned == {l \in 1..Len(loads) : loads[l].pc \in {"done", "threw"}}

\* the records the retention rule keeps of the rows of a sheet
Retained(rows) == Normalize(rows)

\* C11: in every state between two steps of the program, which is every
\* state a renderer, a timer callback or an event handler can start in,
\* currentData is the initial empty collection or the retained records of
\* the rows of one load that has run through its assignment.
C11_DataOfOneLoad ==
    \/ currentData = <<>>
    \/ \E l \in Assigned : currentData = Retained(loads[l].rows)

\* two loads have run to their end and the collection is that of the
\* second, with no record of the first
C11_Witness ==
    /\ Len(loads) = 2
    /\ loads[1].file = "Feb012026" /\ loads[1].pc = "done"
    /\ loads[2].file = "Jan012026" /\ loads[2].pc = "done"
    /\ Len(currentData) = 2
    /\ currentData[1].address = "12 Mill Rd, Culpeper, VA"
    /\ currentData[2].address = "C"

\* C12: the step in which a load reaches the end of its try block leaves
\* on display the derived values of that load's collection and nothing of
\* an earlier one: as many cards, chart points and (up to three) top picks
\* as records, the narrative and the averages of these records, and for an
\* empty collection no picks, no narrative and no averages.
C12_ViewsOfNewCollection ==
    [][\A l \in 1..Len(loads) :
          (l \in InProgress /\ Len(loads') = Len(loads) /\ loads'[l].pc = "done") =>
              /\ Len(listingGrid') = Len(currentData')
              /\ listingCount' = Len(currentData')
              /\ Len(chartData') = Len(currentData')
              /\ Len(topPicks') = Min(3, Len(currentData'))
              /\ marketNarrative'.count = Len(currentData')
              /\ marketNarrative'.generated = (Len(currentData') > 0)
              /\ (Len(currentData') = 0 =>
                      /\ avgPriceText' = StrCell("")
                      /\ avgAcresText' = StrCell(""))]_vars

\* C13: once every load has reached its end, the last one with success,
\* currentData and the listing hold the dataset of the load that was
\* triggered last.
C13_LastTriggeredLoadWins ==
    (Len(loads) >= 2 /\ InProgress = {} /\ Len(loads) \in Succeeded) =>
        /\ currentData = Retained(loads[Len(loads)].rows)
        /\ listingCount = Len(currentData)

\* C14: at most one load is in progress.
C14_OneLoadInProgress == Cardinality(InProgress) <= 1

\* C15: normalising, assigning currentData and rendering are one step of
\* one load.  A step that changes currentData or a view is the step in
\* which exactly one load leaves its last await and runs to its end: no
\* other load moves and the watchdog does not fire in it, and after it the
\* collection is that of the load's rows, the cards and the count are those
\* of the collection, and so is the chart unless renderChart threw.
C15_NormalizeAssignRenderInOneStep ==
    [][(/\ Len(loads') = Len(loads)
        /\ \E l \in 1..Len(loads) : loads[l].pc = "buffer" /\ l \in Assigned')
         <=>
       (\E l \in 1..Len(loads) :
          /\ loads[l].pc = "buffer" /\ l \in Assigned'
          /\ \A m \in 1..Len(loads) : m # l => loads'[m] = loads[m]
          /\ Len(loads') = Len(loads)
          /\ loadTimeout' = ClearTimeout(loadTimeout)
          /\ currentData' = Retained(loads'[l].rows)
          /\ listingGrid' = [j \in 1..Len(currentData') |-> Card(currentData'[j])]
          /\ listingCount' = Len(currentData')
          /\ chartData' = (IF loads'[l].pc = "done"
                            THEN RenderChart(currentData') ELSE <<>>))
       /\ ((currentData' # currentData \/ viewVars' # viewVars) =>
              \E l \in 1..Len(loads) : loads[l].pc = "buffer" /\ l \in Assigned')]_vars

\* a load has run to its end while another was awaiting its response: the
\* collection and its views are those of the load that finished
C15_Witness ==
    /\ Len(loads) = 2
    /\ loads[1].pc = "buffer"
    /\ loads[2].file = "Jan012026" /\ loads[2].pc = "done"
    /\ Len(currentData) = 2
    /\ listingCount = 2
    /\ Len(chartData) = 2
    /\ marketNarrative.address = "C"

(***************************************************************************)
(* Properties of the life cycle of a load: the collection, the watchdog,   *)
(* the map and the status display (stated of SpecLoads)                    *)
(***************************************************************************)
\* C21: currentData changes only in the step in which a load assigns it,
\* and after that step, renderUI and its renderers having run in it, it is
\* the retained records of that load's rows in their order; no other step
\* (a failing load, a fetch settling, the watchdog, the map retry, a load
\* starting) changes it.
C21_OnlyAssignmentChangesData ==
    [][currentData' # currentData =>
          \E l \in 1..Len(loads) :
              /\ Len(loads') = Len(loads)
              /\ loads[l].pc = "buffer"
              /\ l \in Assigned'
              /\ currentData' = Retained(Sheet(loads[l].file))]_vars

\* renderAnalysis has ranked the two records of a load the other way round
\* than they stand in currentData
C21_Witness ==
    /\ \E l \in Succeeded : loads[l].file = "Jan012026"
    /\ currentData = Retained(Sheet("Jan012026"))
    /\ analysis.ran
    /\ analysis.sorted = <<currentData[2], currentData[1]>>
    /\ currentData[1].llmScore # currentData[2].llmScore

\* C22: a load that has neither succeeded nor failed has its watchdog
\* pending or fired (the load that was started last is taken, whose handle
\* loadTimeout holds).
C22_StalledLoadHasWatchdog ==
    (Len(loads) >= 1 /\ Len(loads) \in InProgress) =>
        loadTimeout \in {"pending", "fired"}

\* C25: once the window load handler has run, loadExcelData('Feb012026')
\* has been invoked whatever initMap did; and when a load of that snapshot
\* is the one that assigned currentData and it ran to its end, the
\* collection is that of its rows and every record has its card, with the
\* map live, waiting for its retry or dead.
C25_LoadIndependentOfMap ==
    /\ mapInit # "unbooted" =>
          \E l \in 1..Len(loads) : loads[l].file = "Feb012026"
    /\ \A l \in 1..Len(loads) :
          (Assigned = {l} /\ loads[l].pc = "done" /\ loads[l].file = "Feb012026") =>
              /\ currentData = Retained(Sheet("Feb012026"))
              /\ listingGrid = [j \in 1..Len(currentData) |-> Card(currentData[j])]
              /\ listingCount = Len(currentData)

\* both attempts of initMap have failed and the first load has shown its
\* card
C25_Witness ==
    /\ mapInit = "dead"
    /\ ~markers.live
    /\ Len(loads) = 1
    /\ loads[1].pc = "done"
    /\ Len(listingGrid) = 1
    /\ statusLed = "green"

\* C26: with the map live and a load having succeeded, the marker layer
\* holds one marker per record of currentData.
C26_OneMarkerPerRecord ==
    (mapInit = "live" /\ Succeeded # {}) =>
        Len(markers.layers) = Len(currentData)

\* C27: the step in which a load fails while retrieving or parsing leaves
\* currentData, the cards, the count, the chart, the sidebar and the markers
\* as they were, and sets the LED red, the status LOAD FAILED and the path
\* trace to the error text.
C27_FailedLoadKeepsDisplay ==
    [][\A l \in 1..Len(loads) :
          (Len(loads') = Len(loads) /\ l \in InProgress /\ loads'[l].pc = "failed") =>
              /\ currentData' = currentData
              /\ viewVars' = viewVars
              /\ markers' = markers
              /\ statusLed' = "red"
              /\ statusText' = [kind |-> "failed", count |-> 0]
              /\ pathTrace' = "error"]_vars

\* a load has failed after another had shown its card and marker
C27_Witness ==
    /\ Len(loads) = 2
    /\ loads[1].pc = "done"
    /\ loads[2].pc = "failed"
    /\ Len(currentData) = 1
    /\ Len(listingGrid) = 1
    /\ Len(markers.layers) = 1
    /\ statusLed = "red"
    /\ statusText.kind = "failed"

\* C28: at most one watchdog timer is pending.
C28_OneWatchdogPending == Cardinality(timers) <= 1

\* a second load has started while the first was awaiting: the timer of
\* the first is cancelled and that of the second pending
C28_Witness ==
    /\ Len(loads) = 2
    /\ InProgress = {1, 2}
    /\ timers = {2}

\* C29: when the only load has succeeded, the LED is green, the status
\* LOADED, and the path trace does not show the watchdog's text.
C29_NoTimeoutLeftAfterSuccess ==
    (Len(loads) = 1 /\ loads[1].pc = "done") =>
        /\ statusLed = "green"
        /\ statusText.kind = "loaded"
        /\ pathTrace # "watchdog"

\* C30: a load ends in its try block or in its catch block, never outside
\* both; whenever a load has started and none is in flight the LED is green
\* or red, also when renderUI threw.
C30_SettledLedNotBlue ==
    /\ \A l \in 1..Len(loads) :
          loads[l].pc \in {"fetch", "buffer", "done", "threw", "failed"}
    /\ (Len(loads) >= 1 /\ InProgress = {}) => statusLed \in {"green", "red"}

\* renderUI threw in the only load: the catch block has set the LED red
C30_Witness ==
    /\ Len(loads) = 1
    /\ loads[1].pc = "threw"
    /\ statusLed = "red"
    /\ statusText.kind = "failed"
    /\ Len(listingGrid) = 1

(***************************************************************************)
(* Properties of fetchFromMultiplePaths (stated of SpecFetch)              *)
(***************************************************************************)
\* the three locations in the order in which they are to be tried
Locations(name) ==
    <<"data/list/" \o name \o ".xlsx", "data/" \o name \o ".xlsx",
      name \o ".xlsx">>

\* C23: the paths requested are the locations data/list/<name>.xlsx,
\* data/<name>.xlsx, <name>.xlsx from the first on, in this order and one
\* per await; a location is requested only after every one before it came
\* to a response that is not ok or to a network error; the function returns
\* the location last requested, whose response is ok, and requests nothing
\* after it; it throws if and only if all three have failed.
C23_FirstOkInOrder ==
    /\ Len(requested) <= 3
    /\ \A i \in 1..Len(requested) : requested[i] = Locations(fetchFileName)[i]
    /\ \A i \in 1..(Len(requested) - 1) : responses[requested[i]] # "ok"
    /\ fetchPc = "await" => Len(requested) >= 1
    /\ fetchPc = "returned" =>
          /\ Len(requested) >= 1
          /\ fetchResult = requested[Len(requested)]
          /\ responses[fetchResult] = "ok"
    /\ fetchPc = "thrown" =>
          /\ Len(requested) = 3
          /\ \A i \in 1..3 : responses[Locations(fetchFileName)[i]] # "ok"
    /\ (fetchPc \in {"returned", "thrown"}
           /\ \A i \in 1..3 : responses[Locations(fetchFileName)[i]] # "ok") =>
          fetchPc = "thrown"

\* a network error at the first location, the file found at the second, the
\* third never requested although it would have answered
C23_Witness ==
    /\ fetchPc = "returned"
    /\ fetchFileName = "Jan012026"
    /\ requested = <<"data/list/Jan012026.xlsx", "data/Jan012026.xlsx">>
    /\ fetchResult = "data/Jan012026.xlsx"
    /\ responses["data/list/Jan012026.xlsx"] = "error"
    /\ responses["Jan012026.xlsx"] = "ok"

(***************************************************************************)
(* Properties of waitForDeps and of the v2.4 bootstrap (stated of          *)
(* SpecDeps)                                                               *)
(***************************************************************************)
\* C24: while the promise of waitForDeps is pending a poll is scheduled,
\* and none is scheduled later than one interval after the deadline; the
\* promise resolves only at a poll that finds Leaflet, Chart.js and SheetJS
\* defined and rejects only at a poll after the deadline that finds one
\* missing; a poll that schedules another one found one missing before the
\* deadline; a settled promise stays as it is and polls no more; initMap and
\* loadExcelData have not run unless the promise has resolved.
C24_DepsSettleOnce ==
    /\ [](depsPromise = "pending" =>
             (pollDue # -1 /\ pollDue <= DeadlineMs + PollMs))
    /\ []((mapInit # "unbooted" \/ loads # <<>>) => depsPromise = "resolved")
    /\ [][/\ (depsPromise # "resolved" /\ depsPromise' = "resolved") =>
                 (deps = AllDeps /\ depsPromise \in {"none", "pending"})
          /\ (depsPromise # "rejected" /\ depsPromise' = "rejected") =>
                 (deps # AllDeps /\ now > DeadlineMs /\ depsPromise = "pending")
          /\ (depsPromise \in {"resolved", "rejected"}) =>
                 (depsPromise' = depsPromise /\ pollDue' = -1)
          /\ (depsPromise = "pending" /\ pollDue' # pollDue
                 /\ depsPromise' = "pending") =>
                 (/\ deps # AllDeps
                  /\ now >= pollDue
                  /\ now <= DeadlineMs
                  /\ pollDue' = now + PollMs)]_vars

\* the deadline has passed with a library missing: the promise is rejected,
\* the boot has failed, and neither the map nor a load was started
C24_Witness ==
    /\ depsPromise = "rejected"
    /\ now > DeadlineMs
    /\ deps # AllDeps
    /\ statusLed = "red"
    /\ statusText.kind = "bootfailed"
    /\ mapInit = "unbooted"
    /\ loads = <<>>

(***************************************************************************)
(* Properties of the records and of their per-record values (stated of     *)
(* Spec)                                                                   *)
(***************************************************************************)
\* C16: every surface that shows a record's price per acre (its listing
\* card, its chart point) shows round(price / acres) when acres > 0, and
\* otherwise a marker that is not a number and so distinct from 0.
C16_PerAcreOrUnavailable ==
    pc = "done" =>
        \A j \in 1..Len(currentData) :
            IF NumGt(currentData[j].acres, Zero)
            THEN /\ listingGrid[j].pricePerAcre =
                        NumCell(MathRound(NumDiv(currentData[j].price, currentData[j].acres)))
                 /\ chartData[j].y =
                        MathRound(NumDiv(currentData[j].price, currentData[j].acres))
            ELSE /\ listingGrid[j].pricePerAcre.t # "num"
                 /\ chartData[j].y # Zero

\* a cell that parseFloat and parseInt cannot read: no cell, or a text
\* that after its leading white space is empty or begins with something
\* else than a digit, a sign, a decimal point or the word Infinity
NotNumeric(cell) ==
    \/ cell.t = "undef"
    \/ /\ cell.t = "str"
       /\ LET i == SkipSpace(cell.s, 1)
          IN  /\ ~IsDigit(CharAt(cell.s, i))
              /\ CharAt(cell.s, i) \notin {"+", "-", "."}
              /\ ~StartsWith(From(cell.s, i), "Infinity")

NumericFields ==
    {<<"Price", "price">>, <<"Acres", "acres">>,
     <<"Drive Dist (mi)", "driveTime">>, <<"LLM Score", "llmScore">>}

C18_AreaAndPriceNotNegative ==
    pc = "done" =>
        \A j \in 1..Len(currentData) :
            /\ NumGe(currentData[j].acres, Zero)
            /\ NumGe(currentData[j].price, Zero)

\* the 0-based ordinals of the rows of rawJson that pass the retention
\* rule, in increasing order
RECURSIVE ValidOrdinals(_)
ValidOrdinals(n) ==
    IF n = 0 THEN <<>>
    ELSE IF ValidRow(rawJson[n]) THEN Append(ValidOrdinals(n - 1), n - 1)
    ELSE ValidOrdinals(n - 1)

\* C19: the ids of currentData, in collection order, are the 0-based
\* ordinals of the retained rows in the source row collection: they are
\* not renumbered after exclusions, and so are pairwise distinct and
\* strictly increasing.
C19_IdIsRowOrdinal ==
    pc = "done" =>
        /\ [j \in 1..Len(currentData) |-> currentData[j].id] = ValidOrdinals(Len(rawJson))
        /\ \A j, k \in 1..Len(currentData) :
              j < k => currentData[j].id < currentData[k].id

\* a dropped row between two kept rows: the ids are 0 and 2
C19_Witness ==
    /\ pc = "done"
    /\ rawJson = <<RowA, RowX, RowC>>
    /\ [j \in 1..Len(currentData) |-> currentData[j].id] = <<0, 2>>

\* the text of a cell, trimmed; "" for a cell that is absent or falsy
CellText(cell) == IF Truthy(cell) THEN Trim(ToStr(cell)) ELSE ""

\* a cell that is there but holds no text: "", white space, the number 0
Blank(cell) == cell.t # "undef" /\ CellText(cell) = ""

\* C20: the address of a record is its row's address text followed by
\* ", <city>, <state>" when the row has both a city and a state text, and
\* the address text alone otherwise, where the address text of a row
\* without an Address cell is the placeholder; the type is the row's Type
\* text, "Land" for a row without a Type cell.  Texts are trimmed, and a
\* city or state cell that holds no text counts as not present.
C20_AddressAndType ==
    pc = "done" =>
        \A i \in 1..Len(rawJson) : \A j \in KeptAs(i) :
            LET row == rawJson[i]
                addr == IF Get(row, "Address").t = "undef"
                        THEN "Unnamed Property"
                        ELSE CellText(Get(row, "Address"))
                city == CellText(Get(row, "City"))
                state == CellText(Get(row, "State"))
            IN  /\ ~Blank(Get(row, "Address")) =>
                      currentData[j].address =
                          IF city # "" /\ state # ""
                          THEN addr \o ", " \o city \o ", " \o state
                          ELSE addr
                /\ ~Blank(Get(row, "Type")) =>
                      currentData[j].type =
                          IF Get(row, "Type").t = "undef" THEN "Land"
                          ELSE CellText(Get(row, "Type"))

\* a composed address with its Type, and a row with neither a City nor a
\* Type cell
C20_Witness ==
    /\ pc = "done"
    /\ rawJson = <<RowB, RowX, RowA>>
    /\ Len(currentData) = 2
    /\ currentData[1].address = "12 Mill Rd, Culpeper, VA"
    /\ currentData[1].type = "Farm"
    /\ currentData[2].address = "A"
    /\ currentData[2].type = "Land"

(***************************************************************************)
(* Properties of extractURL (stated of SpecURL)                        *)
(***************************************************************************)
IsHttp(s) == StartsWith(s, "http://") \/ StartsWith(s, "https://")

\* C7: a cell =HYPERLINK("<url>", ...) with a non-empty <url> yields
\* exactly <url>, the first double-quoted string after the function name.
C7_FormulaYieldsFirstQuoted ==
    urlPc = "returned" /\ cellValue.t = "str" =>
        \A u \in UrlTexts :
            StartsWith(cellValue.s, "=HYPERLINK(\"" \o u \o "\"") => urlResult = u

C7_Witness ==
    /\ urlPc = "returned"
    /\ cellValue = S("=HYPERLINK(\"https://example.com/x\",\"label\")")
    /\ urlResult = "https://example.com/x"

\* s is a HYPERLINK formula whose first argument is a non-empty quoted
\* string: the function name in any case, then "(", then the quoted string,
\* white space allowed around the parenthesis
QuotedHyperlinkFormula(s) ==
    LET p == SkipSpace(s, Len("=HYPERLINK") + 1)
        q == SkipSpace(s, p + 1)
        z == SkipNonQuote(s, q + 1)
    IN  /\ SameChars(s, 1, "=HYPERLINK", 1)
        /\ CharAt(s, p) = "("
        /\ CharAt(s, q) = "\""
        /\ z > q + 1
        /\ CharAt(s, z) = "\""

\* C8: a cell that is neither a HYPERLINK formula with a non-empty quoted
\* first argument nor a string beginning with http:// or https:// (absent,
\* empty, a number, label text, a malformed formula) yields "#".
C8_AnythingElseYieldsPlaceholder ==
    urlPc = "returned"
        /\ (\/ cellValue.t # "str"
            \/ ~QuotedHyperlinkFormula(cellValue.s) /\ ~IsHttp(cellValue.s))
        => urlResult = "#"

\* C9: a string beginning with http:// or https:// is returned unchanged,
\* whatever follows the prefix.
C9_HttpStringUnchanged ==
    urlPc = "returned" /\ cellValue.t = "str" /\ IsHttp(cellValue.s)
        => urlResult = cellValue.s

CaseTokens == {"=HYPERLINK", "=hyperlink", "=HyperLink"}

\* C10 as stated: the function name is recognised in any letter case, and
\* the URL is extracted also when white space stands between the function
\* name and the opening parenthesis.
C10_SpaceBeforeParenthesis ==
    urlPc = "returned" /\ cellValue.t = "str" =>
        \A tk \in CaseTokens, g \in GapTexts, u \in UrlTexts :
            StartsWith(cellValue.s, tk \o g \o "(\"" \o u \o "\"") => urlResult = u

\* C10 as amended: the function name is recognised in any letter case, and
\* the URL is extracted when white space stands between the opening
\* parenthesis and the opening quote; a formula with white space between
\* the function name and the parenthesis yields "#".
C10_SpaceAfterParenthesis ==
    urlPc = "returned" /\ cellValue.t = "str" =>
        \A tk \in CaseTokens, g \in GapTexts, u \in UrlTexts :
            /\ StartsWith(cellValue.s, tk \o "(" \o g \o "\"" \o u \o "\"")
                  => urlResult = u
            /\ \A r \in RestTexts :
                  cellValue.s = tk \o " (" \o g \o "\"" \o u \o "\"" \o r
                      => urlResult = "#"

C10_Witness ==
    /\ urlPc = "returned"
    /\ cellValue = S("=hyperlink( \"u\",\"l\")")
    /\ urlResult = "u"

====
